---- MODULE Spec2Model ----
(***************************************************************************)
(* A model of isa.py: the frame locator get_last_module, the defaulting    *)
(* wrapper _default_globals, the five predicates, the State metaclass and  *)
(* its five flags, and the load-time self-test block.                      *)
(*                                                                         *)
(* Python values are tagged records: None, Str(s), Bool(b), a flag class   *)
(* [cls |-> name].  A scope mapping (a globals dict) is a function whose   *)
(* DOMAIN is the set of keys bound in it.  A frame is a record of the      *)
(* identities of its two dicts, f_globals and f_locals; a call stack is a  *)
(* sequence of frames, innermost first.  A call returns Return(v) or       *)
(* Raise(e).  Every operator that models a function takes the stack of its *)
(* caller and pushes its own frame before it calls on.                     *)
(***************************************************************************)
EXTENDS Naturals, Sequences, FiniteSets, TLC

VARIABLES scopes, stack, res, out

vars == <<scopes, stack, res, out>>

(* ---------------------------- bounds ---------------------------------- *)

\* the deepest caller stack the model builds (library frames come on top)
MaxDepth == 2

(* ------------------------- Python values ------------------------------- *)

None == [type |-> "NoneType"]
Str(s) == [str |-> s]
Bool(b) == [bool |-> b]

Return(v) == [exc |-> "none", value |-> v]
Raise(e) == [exc |-> e]

\* dict.get(key): the bound value, or None when the key is absent
Get(d, key) == IF key \in DOMAIN d THEN d[key] ELSE None

\* bool(v) of a value that is no flag: None and "" are falsy
bool_builtin(v) ==
    IF v = None THEN FALSE
    ELSE IF "bool" \in DOMAIN v THEN v.bool
    ELSE IF "str" \in DOMAIN v THEN v.str # ""
    ELSE TRUE

\* str(b) of a bool
str_builtin(b) == IF b THEN "True" ELSE "False"

(* --------------------------- the flags --------------------------------- *)

MAIN == [cls |-> "MAIN"]
FILE == [cls |-> "FILE"]
INTERACTIVE == [cls |-> "INTERACTIVE"]
SCRIPT == [cls |-> "SCRIPT"]
\* MODULE is a reserved word of TLA+
MODULE_ == [cls |-> "MODULE"]

Flags == {MAIN, FILE, INTERACTIVE, SCRIPT, MODULE_}

IsFlag(v) == "cls" \in DOMAIN v

(* ----------------------- modules, frames, scopes ----------------------- *)

\* the library's own module, and the modules of its callers
Lib == "isa"
UserMods == {"m", "n"}
Mods == UserMods \cup {Lib}

\* identities of dicts that are no module's globals
FnLocals == "<function locals>"
ClsLocals == "<class namespace>"

Frame(g, l) == [f_globals |-> g, f_locals |-> l]
ModuleFrame(m) == Frame(m, m)
FunctionFrame(m) == Frame(m, FnLocals)
ClassFrame(m) == Frame(m, ClsLocals)

UserFrames ==
    {ModuleFrame(m) : m \in UserMods} \cup {FunctionFrame(m) : m \in UserMods}
        \cup {ClassFrame(m) : m \in UserMods}

\* a scope mapping with the two bindings the library reads, each possibly absent
MkScope(name, file) ==
    [k \in {x \in {"__name__"} : name # None} \cup {x \in {"__file__"} : file # None}
        |-> IF k = "__name__" THEN name ELSE file]

Sentinel == Str("__main__")

(* --------------------------- frame locator ----------------------------- *)

\* faulty variant: the outermost such frame, not the first
RECURSIVE LastModuleLevel(_, _)
LastModuleLevel(frames, i) ==
    IF i > Len(frames) THEN None
    ELSE LET rest == LastModuleLevel(frames, i + 1) IN
         IF rest # None THEN rest
         ELSE IF frames[i].f_locals = frames[i].f_globals THEN frames[i]
         ELSE None

\* the first frame at or after index i whose f_locals is its f_globals
RECURSIVE FirstModuleLevel(_, _)
FirstModuleLevel(frames, i) ==
    IF i > Len(frames) THEN None
    ELSE IF frames[i].f_locals = frames[i].f_globals THEN frames[i]
    ELSE FirstModuleLevel(frames, i + 1)

\* faulty variant: the caller's frame (f_back), whatever its locals are
get_last_module_f_back(stk) == stk[1]

\* the stack inside a function of the library that is called from stk
Here(stk) == <<FunctionFrame(Lib)>> \o stk

\* get_last_module(), called from the frame on top of stk
get_last_module(stk) == FirstModuleLevel(Here(stk), 1)

\* fr.f_globals, the bindings of the frame's globals: None has no f_globals
f_globals(fr) ==
    IF fr = None THEN Raise("AttributeError") ELSE Return(scopes[fr.f_globals])

(* ----------------------------- predicates ------------------------------ *)

\* the wrapper `default` that _default_globals puts around a predicate, up to
\* its call of the predicate: the globals it passes on, or the failure of
\* None.f_globals; stk is the stack with the wrapper's own frame on top
default(globals, stk) ==
    IF globals = None THEN f_globals(get_last_module(stk)) ELSE Return(globals)

\* `a and not b`, `not a and b`, `a and b` of the results of two calls; the
\* second is called only when the first does not decide
and_not(a, b) ==
    IF a.exc # "none" THEN a
    ELSE IF ~bool_builtin(a.value) THEN a
    ELSE IF b.exc # "none" THEN b
    ELSE Return(Bool(~bool_builtin(b.value)))

not_and(a, b) ==
    IF a.exc # "none" THEN a
    ELSE IF bool_builtin(a.value) THEN Return(Bool(FALSE))
    ELSE b

and_and(a, b) ==
    IF a.exc # "none" THEN a
    ELSE IF ~bool_builtin(a.value) THEN a
    ELSE b

is_main_body(globals, stk) ==
    Return(Bool(Get(globals, "__name__") = Sentinel))

\* is_main as decorated: `return callable(globals)` of the wrapper
is_main(globals, stk) ==
    LET g == default(globals, Here(stk)) IN
    IF g.exc # "none" THEN g ELSE is_main_body(g.value, Here(stk))

\* faulty variant: `"__file__" in globals`, so an empty path counts as a file
is_file_body_present(globals, stk) ==
    Return(Bool("__file__" \in DOMAIN globals))

is_file_body(globals, stk) ==
    Return(Bool(bool_builtin(Get(globals, "__file__"))))

\* is_file as decorated
is_file(globals, stk) ==
    LET g == default(globals, Here(stk)) IN
    IF g.exc # "none" THEN g ELSE is_file_body(g.value, Here(stk))

is_interactive_body(globals, stk) ==
    and_not(is_main(globals, Here(stk)), is_file(globals, Here(stk)))

\* is_interactive as decorated
is_interactive(globals, stk) ==
    LET g == default(globals, Here(stk)) IN
    IF g.exc # "none" THEN g ELSE is_interactive_body(g.value, Here(stk))

\* faulty variant: the `not` before is_main is lost
is_module_body_dropnot(globals, stk) ==
    and_and(is_main(globals, Here(stk)), is_file(globals, Here(stk)))

is_module_body(globals, stk) ==
    not_and(is_main(globals, Here(stk)), is_file(globals, Here(stk)))

\* is_module as decorated
is_module(globals, stk) ==
    LET g == default(globals, Here(stk)) IN
    IF g.exc # "none" THEN g ELSE is_module_body(g.value, Here(stk))

is_script_body(globals, stk) ==
    and_and(is_main(globals, Here(stk)), is_file(globals, Here(stk)))

\* is_script as decorated
is_script(globals, stk) ==
    LET g == default(globals, Here(stk)) IN
    IF g.exc # "none" THEN g ELSE is_script_body(g.value, Here(stk))

Predicates == {"is_main", "is_file", "is_interactive", "is_module", "is_script"}

\* a call of the public predicate named p
CallPredicate(p, globals, stk) ==
    CASE p = "is_main" -> is_main(globals, stk)
      [] p = "is_file" -> is_file(globals, stk)
      [] p = "is_interactive" -> is_interactive(globals, stk)
      [] p = "is_module" -> is_module(globals, stk)
      [] p = "is_script" -> is_script(globals, stk)

(* ------------------------ the State metaclass -------------------------- *)

\* bool(r) and str(r) of the result of a call
bool_of(r) == IF r.exc # "none" THEN r ELSE Return(Bool(bool_builtin(r.value)))
str_of(r) == IF r.exc # "none" THEN r ELSE Return(Str(str_builtin(r.value.bool)))

\* cls.predicate(globals) of the flag cls
predicate(cls, globals, stk) ==
    CASE cls = MAIN -> is_main(globals, Here(stk))
      [] cls = FILE -> bool_of(is_file(globals, Here(stk)))
      [] cls = INTERACTIVE -> is_interactive(globals, Here(stk))
      [] cls = SCRIPT -> is_script(globals, Here(stk))
      [] cls = MODULE_ -> is_module(globals, Here(stk))

\* cls.predicate(g) once g, the argument, is evaluated
predicate_of(cls, g, stk) ==
    IF g.exc # "none" THEN g ELSE predicate(cls, g.value, stk)

\* faulty variant: the bindings are those read when the process began, kept since
State__bool__snapshot(cls, stk) ==
    LET fr == get_last_module(Here(stk)) IN
    IF fr = None THEN Raise("AttributeError")
    ELSE predicate(cls, MkScope(IF fr.f_globals = "m" THEN Sentinel
                                 ELSE Str(fr.f_globals),
                                 Str(fr.f_globals \o ".py")), Here(stk))

\* faulty variant: a missing frame is guarded and the flag is false
State__bool__guarded(cls, stk) ==
    LET fr == get_last_module(Here(stk)) IN
    IF fr = None THEN Return(Bool(FALSE))
    ELSE predicate(cls, scopes[fr.f_globals], Here(stk))

\* State.__bool__(cls)
State__bool__(cls, stk) ==
    predicate_of(cls, f_globals(get_last_module(Here(stk))), Here(stk))

\* bool(v) taken in the frame on top of stk
truth(v, stk) ==
    IF IsFlag(v) THEN State__bool__(v, stk) ELSE Return(Bool(bool_builtin(v)))

\* faulty variant: the str() a class has when its metaclass defines no __str__
State__str__default(cls, stk) ==
    Return(Str("<class 'isa." \o cls.cls \o "'>"))

\* State.__str__(cls)
State__str__(cls, stk) == str_of(truth(cls, Here(stk)))

\* the value of `a or b` once bool(a) is t: a or b itself, with the operands
\* whose truth was taken
or_value(t, a, b) ==
    IF t.exc # "none" THEN [exc |-> t.exc, evaluated |-> <<a>>]
    ELSE [exc |-> "none", value |-> IF t.value.bool THEN a ELSE b,
          evaluated |-> <<a>>]

\* the value of `a and b` once bool(a) is t
and_value(t, a, b) ==
    IF t.exc # "none" THEN [exc |-> t.exc, evaluated |-> <<a>>]
    ELSE [exc |-> "none", value |-> IF t.value.bool THEN b ELSE a,
          evaluated |-> <<a>>]

\* faulty variant: bool(a) | bool(b), which takes the truth of both operands
or_expr_eager(a, b, stk) ==
    LET t == truth(a, stk)
        u == truth(b, stk)
    IN  IF t.exc # "none" THEN [exc |-> t.exc, evaluated |-> <<a>>]
        ELSE IF u.exc # "none" THEN [exc |-> u.exc, evaluated |-> <<a, b>>]
        ELSE [exc |-> "none", value |-> Bool(t.value.bool \/ u.value.bool),
              evaluated |-> <<a, b>>]

\* the expression `a or b` in the frame on top of stk
or_expr(a, b, stk) == or_value(truth(a, stk), a, b)

\* the expression `a and b`
and_expr(a, b, stk) == and_value(truth(a, stk), a, b)

State__or__(a, b, stk) == or_expr(a, b, Here(stk))

\* faulty variant: `a and b` where `a or b` is meant
State__ror__and(b, a, stk) == and_expr(a, b, Here(stk))

State__ror__(b, a, stk) == or_expr(a, b, Here(stk))

State__and__(a, b, stk) == and_expr(a, b, Here(stk))

State__rand__(b, a, stk) == and_expr(b, a, Here(stk))

\* x | y: the left operand's __or__ when it is a flag; bool.__or__ declines a
\* flag, so the right operand's __ror__ is called; two bools are or-ed
BinOr(x, y, stk) ==
    IF IsFlag(x) THEN State__or__(x, y, stk)
    ELSE IF IsFlag(y) THEN State__ror__(y, x, stk)
    ELSE [exc |-> "none", value |-> Bool(x.bool \/ y.bool), evaluated |-> <<>>]

\* x & y
BinAnd(x, y, stk) ==
    IF IsFlag(x) THEN State__and__(x, y, stk)
    ELSE IF IsFlag(y) THEN State__rand__(y, x, stk)
    ELSE [exc |-> "none", value |-> Bool(x.bool /\ y.bool), evaluated |-> <<>>]

\* `not` of a truth value
not_of(t) == IF t.exc # "none" THEN t ELSE Return(Bool(~t.value.bool))

\* `not v` taken in the frame on top of stk
not_expr(v, stk) == not_of(truth(v, stk))

(* ------------------------- the doctest table --------------------------- *)

truth_of(r, stk) == IF r.exc # "none" THEN Raise(r.exc) ELSE truth(r.value, stk)

\* the outcome of `assert v` for the truth t of v
assert_stmt(t) ==
    IF t.exc # "none" THEN t.exc
    ELSE IF t.value.bool THEN "ok" ELSE "AssertionError"

\* x & y where x and y are results of sub-expressions
and_of(rx, ry, stk) ==
    IF rx.exc # "none" THEN Raise(rx.exc)
    ELSE IF ry.exc # "none" THEN Raise(ry.exc)
    ELSE BinAnd(rx.value, ry.value, stk)

\* >>> assert not (MAIN | SCRIPT)
higher_1(stk) ==
    assert_stmt(not_of(truth_of(BinOr(MAIN, SCRIPT, stk), stk)))

\* >>> assert not MAIN & (not SCRIPT) & (not MAIN)
higher_2(stk) ==
    assert_stmt(not_of(truth_of(
        and_of(and_of(Return(MAIN), not_expr(SCRIPT, stk), stk),
               not_expr(MAIN, stk), stk), stk)))

\* >>> assert MODULE & (not MAIN) & FILE
higher_3(stk) ==
    assert_stmt(truth_of(
        and_of(and_of(Return(MODULE_), not_expr(MAIN, stk), stk),
               Return(FILE), stk), stk))

(* ------------------------------ the state ------------------------------ *)

NoRes == [op |-> "none"]

\* the bindings a caller's module takes in the model
NameValues(m) == {Sentinel, Str(m)}
FileValues(m) == {Str(""), Str(m \o ".py")}

\* the library imported as a module
LibScope == MkScope(Str(Lib), Str(Lib \o ".py"))

\* the outermost frame of a thread: a module body, or a function
RootFrames ==
    {ModuleFrame(m) : m \in UserMods} \cup {FunctionFrame(m) : m \in UserMods}

\* "m" is the program that is run, the other modules are imported
InitScopes ==
    [m \in Mods |->
        IF m = Lib THEN LibScope
        ELSE IF m = "m" THEN MkScope(Sentinel, Str("m.py"))
        ELSE MkScope(Str(m), Str(m \o ".py"))]

Init ==
    /\ scopes = InitScopes
    /\ stack \in {<<f>> : f \in RootFrames}
    /\ res = NoRes
    /\ out = <<>>

(* ------------------- what the callers do to the state ------------------ *)

\* res holds the outcome of the operation the call site has just made, until
\* the caller takes it (Resume); the callers act between operations

\* a call, an import or a class statement enters a frame
PushFrame ==
    \E f \in UserFrames :
        /\ res = NoRes
        /\ Len(stack) < MaxDepth
        /\ stack' = <<f>> \o stack
        /\ UNCHANGED <<scopes, res, out>>

\* the innermost frame returns
PopFrame ==
    /\ res = NoRes
    /\ Len(stack) > 1
    /\ stack' = Tail(stack)
    /\ UNCHANGED <<scopes, res, out>>

\* globals()[key] = v in module m
SetBinding ==
    \E m \in UserMods, key \in {"__name__", "__file__"} :
        \E v \in (IF key = "__name__" THEN NameValues(m) ELSE FileValues(m)) :
            /\ res = NoRes
            /\ Get(scopes[m], key) # v
            /\ scopes' = [scopes EXCEPT ![m] =
                    IF key = "__name__" THEN MkScope(v, Get(@, "__file__"))
                    ELSE MkScope(Get(@, "__name__"), v)]
            /\ UNCHANGED <<stack, res, out>>

\* del globals()[key] in module m
DelBinding ==
    \E m \in UserMods, key \in {"__name__", "__file__"} :
        /\ res = NoRes
        /\ key \in DOMAIN scopes[m]
        /\ scopes' = [scopes EXCEPT ![m] =
                IF key = "__name__" THEN MkScope(None, Get(@, "__file__"))
                ELSE MkScope(Get(@, "__name__"), None)]
        /\ UNCHANGED <<stack, res, out>>

(* ----------------- the library's operations, at a call site ------------ *)

\* get_last_module() at the call site
CallGetLastModule ==
    /\ res = NoRes
    /\ res' = [op |-> "get_last_module", ret |-> get_last_module(stack)]
    /\ UNCHANGED <<scopes, stack, out>>

\* bool(cls) at the call site
EvalFlag ==
    \E cls \in Flags :
        /\ res = NoRes
        /\ res' = [op |-> "bool", cls |-> cls, ret |-> State__bool__(cls, stack)]
        /\ UNCHANGED <<scopes, stack, out>>

\* str(cls) at the call site
StrFlag ==
    \E cls \in Flags :
        /\ res = NoRes
        /\ res' = [op |-> "str", cls |-> cls, ret |-> State__str__(cls, stack)]
        /\ UNCHANGED <<scopes, stack, out>>

\* p() at the call site
CallOmitted ==
    \E p \in Predicates :
        /\ res = NoRes
        /\ res' = [op |-> "call", pred |-> p, globals |-> None,
                   ret |-> CallPredicate(p, None, stack)]
        /\ UNCHANGED <<scopes, stack, out>>

\* p(g) at the call site, g the globals of some module
CallExplicit ==
    \E p \in Predicates, m \in Mods :
        /\ res = NoRes
        /\ res' = [op |-> "call", pred |-> p, globals |-> scopes[m],
                   ret |-> CallPredicate(p, scopes[m], stack)]
        /\ UNCHANGED <<scopes, stack, out>>

Operands == Flags \cup {Bool(TRUE), Bool(FALSE)}

\* what the call site has of `bool(x op y)`: the value r of x op y, and its truth
Applied(op, x, y, r) ==
    [op |-> op, x |-> x, y |-> y, ret |-> r, truth |-> truth_of(r, stack)]

\* bool(x | y) at the call site, one operand at least a flag
ApplyOr ==
    \E x \in Operands, y \in Operands :
        /\ res = NoRes
        /\ IsFlag(x) \/ IsFlag(y)
        /\ res' = Applied("or", x, y, BinOr(x, y, stack))
        /\ UNCHANGED <<scopes, stack, out>>

\* bool(x & y) at the call site, one operand at least a flag
ApplyAnd ==
    \E x \in Operands, y \in Operands :
        /\ res = NoRes
        /\ IsFlag(x) \/ IsFlag(y)
        /\ res' = Applied("and", x, y, BinAnd(x, y, stack))
        /\ UNCHANGED <<scopes, stack, out>>

\* the three examples of __test__["test_higher_conditons"] at the call site
test_higher_conditons ==
    /\ res = NoRes
    /\ res' = [op |-> "test_higher_conditons",
               outcome |-> <<higher_1(stack), higher_2(stack), higher_3(stack)>>]
    /\ UNCHANGED <<scopes, stack, out>>

\* the caller takes the result and goes on
Resume ==
    /\ res # NoRes
    /\ res' = NoRes
    /\ UNCHANGED <<scopes, stack, out>>

Next ==
    \/ PushFrame
    \/ PopFrame
    \/ SetBinding
    \/ DelBinding
    \/ CallGetLastModule
    \/ EvalFlag
    \/ StrFlag
    \/ CallOmitted
    \/ CallExplicit
    \/ ApplyOr
    \/ ApplyAnd
    \/ test_higher_conditons
    \/ Resume

Spec == Init /\ [][Next]_vars

(* --------------- the predicates on an explicit scope mapping ----------- *)

\* the scope mappings the predicates are given: each binding absent, empty,
\* the sentinel, or another string
ScopeNames == {None, Sentinel, Str(""), Str("m"), Str(Lib)}
ScopeFiles == {None, Str(""), Str("m.py"), Str("nb.ipynb")}
ScopeMappings == {MkScope(n, f) : n \in ScopeNames, f \in ScopeFiles}

\* f with the value v at the key k
Put(f, k, v) == [x \in DOMAIN f \cup {k} |-> IF x = k THEN v ELSE f[x]]

Calls(g) == [op |-> "calls", globals |-> g, rets |-> [p \in {} |-> None]]

InitPred ==
    /\ scopes = InitScopes
    /\ stack \in {<<f>> : f \in RootFrames}
    /\ res \in {Calls(g) : g \in ScopeMappings}
    /\ out = <<>>

\* p(g) for the mapping g, a predicate p not called on it yet
CallWithMapping ==
    \E p \in Predicates \ DOMAIN res.rets :
        /\ res' = [res EXCEPT
                    !.rets = Put(@, p, CallPredicate(p, res.globals, stack))]
        /\ UNCHANGED <<scopes, stack, out>>

NextPred == CallWithMapping

SpecPred == InitPred /\ [][NextPred]_vars

(* ------------------------ the load-time self-test ---------------------- *)

\* the report test_script expects of the file run as a script
ExpectedReport == <<"interactive: False", "module: False", "script: True">>

\* __test__: test_script with the report it expects, test_higher_conditons
TestTable == [test_script |-> ExpectedReport, test_higher_conditons |-> "asserts"]

\* the stack of the importer: empty when the file is the program that is run
ImporterStacks == {<<>>} \cup {<<f>> : f \in UserFrames}

InitLoad ==
    /\ \E g \in ScopeMappings :
          scopes = [m \in Mods |-> IF m = Lib THEN g ELSE MkScope(Str(m), Str(m \o ".py"))]
    /\ stack \in ImporterStacks
    /\ res = NoRes
    /\ out = <<>>

\* the block from `if SCRIPT:` on, given the truth of SCRIPT and of MODULE and
\* the str() of the three flags of the report, each taken where the block does
SelfTest(script, module, i, m, s) ==
    IF script.exc # "none"
    THEN /\ res' = [op |-> "load", exc |-> script.exc]
         /\ UNCHANGED <<scopes, out>>
    ELSE IF script.value.bool
    THEN IF i.exc # "none" \/ m.exc # "none" \/ s.exc # "none"
         THEN /\ res' = [op |-> "load", exc |-> "AttributeError"]
              /\ UNCHANGED <<scopes, out>>
         ELSE /\ out' = out \o <<"interactive: " \o i.value.str,
                                 "module: " \o m.value.str,
                                 "script: " \o s.value.str>>
              /\ res' = [op |-> "load", exc |-> "none"]
              /\ UNCHANGED scopes
    ELSE IF module.exc # "none"
    THEN /\ res' = [op |-> "load", exc |-> module.exc]
         /\ UNCHANGED <<scopes, out>>
    ELSE IF module.value.bool
    THEN /\ scopes' = [scopes EXCEPT ![Lib] = Put(@, "__test__", TestTable)]
         /\ res' = [op |-> "load", exc |-> "none"]
         /\ UNCHANGED out
    ELSE /\ res' = [op |-> "load", exc |-> "none"]
         /\ UNCHANGED <<scopes, out>>

\* the stack while the module body runs: its own frame over the importer's
Body == <<ModuleFrame(Lib)>> \o stack

\* the module body from `if SCRIPT:` on, run in the module's own frame
Load ==
    /\ res = NoRes
    /\ SelfTest(truth(SCRIPT, Body), truth(MODULE_, Body),
                State__str__(INTERACTIVE, Body), State__str__(MODULE_, Body),
                State__str__(SCRIPT, Body))
    /\ UNCHANGED stack

NextLoad == Load

SpecLoad == InitLoad /\ [][NextLoad]_vars

(* ======================================================================= *)
(* The claims                                                              *)
(* ======================================================================= *)

\* what the two bindings of a mapping say, read off the mapping itself
NameIsSentinel(g) == "__name__" \in DOMAIN g /\ g["__name__"] = Str("__main__")
FileIsSet(g) == "__file__" \in DOMAIN g /\ g["__file__"] # Str("")

Called(p) == res.op = "calls" /\ p \in DOMAIN res.rets
IsTrue(r) == r = Return(Bool(TRUE))
Modes == {"is_interactive", "is_module", "is_script"}
TrueModes == {p \in Modes : IsTrue(res.rets[p])}

\* C1 as stated: for every scope mapping, exactly one of is_interactive,
\* is_module, is_script is true.
C1_ExactlyOneMode ==
    (\A p \in Modes : Called(p)) => Cardinality(TrueModes) = 1

\* C1 amended: for every scope mapping at most one of is_interactive, is_module,
\* is_script is true; exactly one is true when the name binding is the sentinel
\* or the file-path binding is present and non-empty, and none is true otherwise.
C1_AtMostOneMode ==
    (\A p \in Modes : Called(p)) =>
        /\ Cardinality(TrueModes) <= 1
        /\ Cardinality(TrueModes) = 1 <=>
              (NameIsSentinel(res.globals) \/ FileIsSet(res.globals))

C1_Witness ==
    /\ \A p \in Modes : Called(p)
    /\ res.globals = MkScope(Str("__main__"), Str("m.py"))
    /\ TrueModes = {"is_script"}

\* C6: for every scope mapping, bindings absent or not, no predicate raises and
\* each returns a boolean: is_main iff the name binding is the sentinel, is_file
\* iff the file-path binding is present and non-empty, is_interactive =
\* is_main and not is_file, is_module = not is_main and is_file, is_script =
\* is_main and is_file.
C6_PredicateValues ==
    res.op = "calls" =>
        LET g == res.globals
            r == res.rets
            b(p) == r[p].value.bool
        IN  /\ \A p \in DOMAIN r :
                  r[p].exc = "none" /\ r[p].value \in {Bool(TRUE), Bool(FALSE)}
            /\ Called("is_main") => (b("is_main") <=> NameIsSentinel(g))
            /\ Called("is_file") => (b("is_file") <=> FileIsSet(g))
            /\ DOMAIN r = Predicates =>
                  /\ b("is_interactive") <=> (b("is_main") /\ ~b("is_file"))
                  /\ b("is_module") <=> (~b("is_main") /\ b("is_file"))
                  /\ b("is_script") <=> (b("is_main") /\ b("is_file"))

C6_Witness ==
    /\ res.op = "calls"
    /\ DOMAIN res.globals = {}
    /\ DOMAIN res.rets = Predicates
    /\ \A p \in Predicates : res.rets[p] = Return(Bool(FALSE))

(* ------------------------- claims about call sites --------------------- *)

IsModuleLevel(fr) == fr.f_locals = fr.f_globals
NoModuleFrame == \A i \in 1..Len(stack) : ~IsModuleLevel(stack[i])

\* the call site is the top level of an imported module: its frame is a module
\* body, the name is not the sentinel and the file path is non-empty
ImportedModuleSite ==
    /\ IsModuleLevel(stack[1])
    /\ ~NameIsSentinel(scopes[stack[1].f_globals])
    /\ FileIsSet(scopes[stack[1].f_globals])

Omitted == res.op = "call" /\ DOMAIN res.globals = {"type"}

\* C2: at the top level of a genuine imported module MODULE and FILE are true
\* and MAIN, INTERACTIVE, SCRIPT are false, and the same holds of is_module,
\* is_file, is_main, is_interactive, is_script called with no argument.
C2_ImportedModuleFlags ==
    ImportedModuleSite =>
        /\ res.op = "bool" => res.ret = Return(Bool(res.cls \in {MODULE_, FILE}))
        /\ Omitted => res.ret = Return(Bool(res.pred \in {"is_module", "is_file"}))

C2_Witness ==
    /\ ImportedModuleSite
    /\ Len(stack) > 1
    /\ res.op = "bool"
    /\ res.cls = MODULE_
    /\ res.ret = Return(Bool(TRUE))

\* the truth of an operand at the call site, where a scope is located
TruthAtSite(v) == truth(v, stack).value.bool

\* C3: for operands x, y, one at least a flag and the other a flag or a bool,
\* and every located scope, the truth of x | y is that of y | x and is
\* truth(x) or truth(y), the truth of x & y is that of y & x and is truth(x)
\* and truth(y), all taken at one call site; in a module-import context
\* MAIN | SCRIPT is false and MODULE & (not MAIN) & FILE is true.
C3_OperatorsCommute ==
    ~NoModuleFrame =>
        /\ res.op = "or" =>
              /\ res.truth = Return(Bool(TruthAtSite(res.x) \/ TruthAtSite(res.y)))
              /\ res.truth = truth_of(BinOr(res.y, res.x, stack), stack)
        /\ res.op = "and" =>
              /\ res.truth = Return(Bool(TruthAtSite(res.x) /\ TruthAtSite(res.y)))
              /\ res.truth = truth_of(BinAnd(res.y, res.x, stack), stack)
        /\ (res.op = "test_higher_conditons" /\ ImportedModuleSite) =>
              res.outcome = <<"ok", "ok", "ok">>

C3_Witness ==
    /\ ImportedModuleSite
    /\ res.op = "and"
    /\ res.x = Bool(TRUE)
    /\ res.y = MODULE_
    /\ res.ret.value = Bool(TRUE)
    /\ res.truth = Return(Bool(TRUE))

\* the flag whose predicate is p
PredOf(cls) ==
    CASE cls = MAIN -> "is_main"
      [] cls = FILE -> "is_file"
      [] cls = INTERACTIVE -> "is_interactive"
      [] cls = SCRIPT -> "is_script"
      [] cls = MODULE_ -> "is_module"

\* C4 as stated: with the scope omitted, at the top level of a module M or
\* inside a function defined in M, the scope tested is M's own, for every call
\* stack reaching the call site (here: every stack that holds a module body).
C4_TestsEnclosingModule ==
    ~NoModuleFrame =>
        LET own == scopes[stack[1].f_globals] IN
        /\ res.op = "bool" => res.ret = CallPredicate(PredOf(res.cls), own, stack)
        /\ Omitted => res.ret = CallPredicate(res.pred, own, stack)

\* C7 as stated: every application of | and & evaluates the truthiness of both
\* operands.
C7_BothEvaluated ==
    (res.op \in {"or", "and"} /\ res.ret.exc = "none") =>
        {res.ret.evaluated[i] : i \in 1..Len(res.ret.evaluated)} = {res.x, res.y}

\* C7 amended: every application of | and & evaluates the truthiness of exactly
\* one operand, whatever its truth value: the left operand, except that
\* bool & flag evaluates the flag; the other operand is returned or dropped
\* without its truthiness being taken.
C7_OneEvaluated ==
    res.op \in {"or", "and"} =>
        res.ret.evaluated =
            IF res.op = "and" /\ ~IsFlag(res.x) THEN <<res.y>> ELSE <<res.x>>

C7_Witness ==
    /\ ~NoModuleFrame
    /\ res.op = "or"
    /\ res.x = MAIN
    /\ res.y = SCRIPT
    /\ res.ret = [exc |-> "none", value |-> MAIN, evaluated |-> <<MAIN>>]

\* C8: the frame locator returns the first frame, from the innermost outward,
\* whose locals are its globals, skipping the function and class-body frames
\* before it, and returns nothing exactly when the stack holds no such frame.
C8_FirstModuleFrame ==
    res.op = "get_last_module" =>
        /\ res.ret = None <=> NoModuleFrame
        /\ res.ret # None =>
              \E i \in 1..Len(stack) :
                  /\ res.ret = stack[i]
                  /\ IsModuleLevel(stack[i])
                  /\ \A j \in 1..(i - 1) : ~IsModuleLevel(stack[j])

C8_Witness ==
    /\ res.op = "get_last_module"
    /\ Len(stack) = 2
    /\ stack[1] = ClassFrame("m")
    /\ res.ret = ModuleFrame("n")

\* the module scope located from the call site, or None
LocatedScope ==
    LET S == {i \in 1..Len(stack) : IsModuleLevel(stack[i])} IN
    IF S = {} THEN None
    ELSE scopes[stack[CHOOSE i \in S : \A j \in S : i <= j].f_globals]

\* C9: a flag's truthiness is never cached: whatever evaluations, changes of
\* bindings and changes of call site came before, an evaluation returns the
\* flag's predicate applied to the module scope located at that moment, and it
\* changes no scope binding and not the call stack.
C9_Recomputed ==
    [][(res.op = "none" /\ res'.op = "bool") =>
          /\ scopes' = scopes
          /\ stack' = stack
          /\ LocatedScope # None =>
                res'.ret = CallPredicate(PredOf(res'.cls), LocatedScope, stack)]_vars

C9_Witness ==
    /\ res.op = "bool"
    /\ res.cls = MAIN
    /\ stack = <<ModuleFrame("n"), ModuleFrame("m")>>
    /\ res.ret = Return(Bool(TRUE))
    /\ ~NameIsSentinel(scopes["m"])

\* C10: when no frame of the calling stack has identical locals and globals, a
\* flag's truthiness or string form, or a predicate called with the scope
\* omitted, ends in an attribute-access failure, while a predicate called with
\* an explicit scope mapping returns its normal result.
C10_NoModuleFrameFails ==
    NoModuleFrame =>
        /\ res.op \in {"bool", "str"} => res.ret = Raise("AttributeError")
        /\ Omitted => res.ret = Raise("AttributeError")
        /\ (res.op = "call" /\ ~Omitted) =>
              res.ret = Return(Bool(
                  CASE res.pred = "is_main" -> NameIsSentinel(res.globals)
                    [] res.pred = "is_file" -> FileIsSet(res.globals)
                    [] res.pred = "is_interactive" ->
                          NameIsSentinel(res.globals) /\ ~FileIsSet(res.globals)
                    [] res.pred = "is_module" ->
                          ~NameIsSentinel(res.globals) /\ FileIsSet(res.globals)
                    [] res.pred = "is_script" ->
                          NameIsSentinel(res.globals) /\ FileIsSet(res.globals)))

C10_Witness ==
    /\ NoModuleFrame
    /\ Len(stack) = 2
    /\ res.op = "str"
    /\ res.ret = Raise("AttributeError")

(* ------------------------ the claim about the load --------------------- *)

Loaded == res.op = "load"
TestsRegistered == "__test__" \in DOMAIN scopes[Lib]

\* C5: loaded with an entry-point scope that has a file path, the self-test
\* prints exactly the lines "interactive: False", "module: False",
\* "script: True", in this order; loaded as an imported module it prints
\* nothing and registers the test table; the two branches never both run.
C5_SelfTest ==
    Loaded =>
        /\ res.exc = "none"
        /\ (NameIsSentinel(scopes[Lib]) /\ FileIsSet(scopes[Lib])) =>
              /\ out = <<"interactive: False", "module: False", "script: True">>
              /\ ~TestsRegistered
        /\ (~NameIsSentinel(scopes[Lib]) /\ FileIsSet(scopes[Lib])) =>
              /\ out = <<>>
              /\ TestsRegistered
        /\ ~(out # <<>> /\ TestsRegistered)

C5_Witness ==
    /\ Loaded
    /\ stack = <<>>
    /\ out = <<"interactive: False", "module: False", "script: True">>
    /\ ~TestsRegistered

====
